---- MODULE Spec2Model ----
(***************************************************************************)
(* Model of the video-recorder API: the upload route, the multer upload    *)
(* middleware and VideoService.processVideo with the uploads directory,    *)
(* the recordings collection and the cached database handle.               *)
(*                                                                         *)
(* Every action is one synchronous block of the Node.js event loop: the    *)
(* code that runs between two awaits.  The outcome of each external call   *)
(* (file write, ffmpeg, transcription request, MongoDB connect and insert, *)
(* unlink) is an input of the action that resumes after it.                *)
(***************************************************************************)
EXTENDS Integers, Sequences, FiniteSets, TLC

\* ---------------------------------------------------------------- bounds
NumRuns == 2
MaxClock == 1

\* The sweep's time is counted in ticks, TicksPerHour of them to the hour
\* (3600000 ms); a call of the sweep into the file system (readdir, stat,
\* unlink) is answered at most MaxSweepLag ticks after the sweep began.
TicksPerHour == 2
MaxSweepLag == 1

\* The component: MediaRecorder objects alive at a time, and upload
\* requests in flight at a time.
MaxRecorders == 2
MaxFetches == 2

\* ------------------------------------------------------------- constants
MaxFileSize == 104857600
HexLen == 24

Runs == 1..NumRuns
Clock == 0..MaxClock

allowedTypes ==
    {"video/mp4", "video/webm", "video/x-m4v",
     "video/x-msvideo", "video/x-flv", "video/x-matroska"}

routeAllowedTypes ==
    {"video/mp4", "video/x-m4v", "video/x-msvideo",
     "video/x-flv", "video/x-matroska", "video/webm"}

\* ------------------------------------------------------------ the inputs
NoUpload == [originalname |-> "", mimetype |-> "", size |-> -1]

\* The multipart bodies request r may carry: a valid video (its name, type
\* and size differ from one request to the next), a wrong type, a file
\* above the size limit, and no file part at all.
originalnames == <<"a.mp4", "b.webm", "c.mp4", "d.webm">>

ValidUpload(r) ==
    [originalname |-> originalnames[((r - 1) % Len(originalnames)) + 1],
     mimetype |-> IF r % 2 = 1 THEN "video/mp4" ELSE "video/webm",
     size |-> IF r % 2 = 1 THEN 1 ELSE MaxFileSize]

Uploads(r) ==
    { ValidUpload(r),
      [originalname |-> "c.pdf",   mimetype |-> "application/pdf", size |-> 1],
      [originalname |-> "big.mp4", mimetype |-> "video/mp4",       size |-> MaxFileSize + 1],
      NoUpload }

\* A video file of no bytes: multer accepts it.
EmptyUpload == [originalname |-> "empty.mp4", mimetype |-> "video/mp4", size |-> 0]

\* ----------------------------------------------------- files and contents
\* A content is <<format, k>>: data in that format derived from the bytes
\* uploaded by request k.
NoFile == <<"none", 0>>
Bytes(r) == <<"bytes", r>>
Jpeg(c) == <<"jpg", c[2]>>
Mp3(c) == <<"mp3", c[2]>>
Text(c) == <<"text", c[2]>>
Base64(c) == <<"base64:" \o c[1], c[2]>>
NoText == <<"none", 0>>

\* A path of the uploads directory is <<prefix, Date.now()>>.
NoPath == <<"none", 0>>
Paths == {"temp", "thumbnail", "audio"} \X Clock
TempPath(t) == <<"temp", t>>
ThumbnailPath(t) == <<"thumbnail", t>>
AudioPath(t) == <<"audio", t>>

\* ------------------------------------------------------------- ObjectId
RECURSIVE HexDigits(_, _)
HexDigits(n, len) ==
    IF len = 0 THEN <<>> ELSE Append(HexDigits(n \div 16, len - 1), n % 16)

\* ObjectId.toString(): the 24 hex digits of the identifier.
toString(oid) == HexDigits(oid, HexLen)

isValidHex(s) == Len(s) = HexLen /\ \A i \in 1..Len(s) : s[i] \in 0..15

RECURSIVE HexValue(_)
HexValue(s) ==
    IF s = <<>> THEN 0 ELSE 16 * HexValue(SubSeq(s, 1, Len(s) - 1)) + s[Len(s)]

NoDoc ==
    [_id |-> 0, filename |-> "", originalName |-> "", mimeType |-> "",
     size |-> -1, transcription |-> NoText, createdAt |-> -1]

NoResult == [id |-> <<>>, transcription |-> NoText]

\* ----------------------------------------------------------------- state
VARIABLES
    now,          \* Date.now() / new Date()
    uploadsDir,   \* the uploads directory: path -> content
    recordings,   \* the recordings collection, in insertion order
    cachedDb,     \* db.ts: the cached Db handle is set
    connectCalls, \* number of client.connect() invocations
    nextOid,      \* source of fresh ObjectIds
    runs,         \* per request: the handler's and processVideo's locals
    api,          \* the GET / DELETE request in hand and its response
    deleted,      \* history: the identifiers deleteOne has removed
    mtimes,       \* index.ts sweep: path -> time since stats.mtimeMs, in ticks
    timer,        \* ticks until the setInterval callback is due
    sweep,        \* the sweep in progress: its pending fs callbacks
    writers,      \* the runs of processVideo whose files the sweep meets
    \* VideoRecorder: the component's state (useState)
    status, isRecording, recordedChunks, recordedVideoUrl, transcript,
    isMicrophoneEnabled, facingMode,
    \* VideoRecorder: the refs and what they point to
    mediaRecorderRef, \* the recorder of the last successful start (0: null)
    streamRef,        \* the recorder fed by the stream held (0: null or none)
    recorders,        \* the MediaRecorder objects created
    gumPending,       \* getUserMedia calls not yet settled
    fetchPending,     \* upload requests not yet settled
    layout,           \* which of the two renderings of the component is shown
    event,            \* history: the last handler or callback that ran
    afterReset        \* history: reset, and no start or upload since

sweepVars == <<mtimes, timer, sweep, writers>>

webVars == <<status, isRecording, recordedChunks, recordedVideoUrl, transcript,
             isMicrophoneEnabled, facingMode, mediaRecorderRef, streamRef,
             recorders, gumPending, fetchPending, layout, event, afterReset>>

serverVars == <<now, uploadsDir, recordings, cachedDb, connectCalls, nextOid,
                runs, api, deleted>>

vars == <<serverVars, sweepVars, webVars>>

\* ------------------------------------------------- the sweep's state
\* The files of one time stamp: runs that read Date.now() in the same
\* millisecond share all three paths, runs of different stamps share none.
SweepRun ==
    [tempVideoPath |-> TempPath(0), thumbnailPath |-> ThumbnailPath(0),
     audioPath |-> AudioPath(0)]

SweepFiles == {SweepRun.tempVideoPath, SweepRun.thumbnailPath, SweepRun.audioPath}

\* Ages beyond AgeCap need not be told apart: the sweep compares an age
\* with one hour plus the time since it began.
AgeCap == TicksPerHour + 1 + MaxSweepLag

Aged(a) == <<"mtime", a>>

Age(entry) == entry[2]

NoSweep == [readdir |-> FALSE, listed |-> {}, unlinking |-> {}, elapsed |-> 0]

SweepInit ==
    /\ mtimes = [p \in SweepFiles |-> NoFile]
    /\ timer = TicksPerHour
    /\ sweep = NoSweep
    /\ writers = [r \in Runs |-> "idle"]

\* ------------------------------------------------- the component's state
\* The two renderings of the component: they differ in when the stop and
\* the microphone buttons are shown.
Layouts == {"VideoRecorder.tsx", "part_001"}

Recorders == 1..MaxRecorders

NoRecorder == [state |-> "none", chunks |-> 0, onstop |-> FALSE]

NoTranscript == <<>>

\* (history) a handler or callback, and what the call it follows came to.
Event(name) == <<name, "">>

WebInit(l) ==
    /\ status = "idle"
    /\ isRecording = FALSE
    /\ recordedChunks = 0
    /\ recordedVideoUrl = FALSE
    /\ transcript = NoTranscript
    /\ isMicrophoneEnabled = TRUE
    /\ facingMode = "user"
    /\ mediaRecorderRef = 0
    /\ streamRef = 0
    /\ recorders = [i \in Recorders |-> NoRecorder]
    /\ gumPending = 0
    /\ fetchPending = 0
    /\ layout = l
    /\ event = Event("none")
    /\ afterReset = FALSE

\* No GET or DELETE request has been made.
NoApi ==
    [op |-> "none", id |-> <<>>, pc |-> "idle", status |-> 0, error |-> "",
     recording |-> NoDoc, listing |-> <<>>]

NewRun ==
    [pc |-> "idle", sent |-> NoUpload, file |-> NoUpload,
     tempVideoPath |-> NoPath, thumbnailPath |-> NoPath, audioPath |-> NoPath,
     transcription |-> NoText, thumbnail |-> NoFile, doc |-> NoDoc,
     result |-> NoResult, error |-> "", status |-> 0,
     \* history
     started |-> <<>>, completed |-> {}, failed |-> {},
     inserts |-> 0, insertedId |-> 0, replies |-> <<>>]

\* The state after construction, with the component rendered as `l'.
InitLayout(l) ==
    /\ now = 0
    /\ uploadsDir = [p \in Paths |-> NoFile]
    /\ recordings = <<>>
    /\ cachedDb = FALSE
    /\ connectCalls = 0
    /\ nextOid = 1
    /\ runs = [r \in Runs |-> NewRun]
    /\ api = NoApi
    /\ deleted = {}
    /\ SweepInit
    /\ WebInit(l)

Init == InitLayout("VideoRecorder.tsx")

InProgress(rs) ==
    rs.pc \in {"writing", "snapshot", "audio", "transcribing", "connecting", "inserting"}

Terminal(rs) == rs.pc \in {"returned", "rejected"}

\* ------------------------------------------------------ upload middleware
fileFilterAccepts(f) == f.mimetype \in allowedTypes

\* (a limit that is never enforced)
fileSizeLimitIgnored(f) == FALSE

\* limits.fileSize: multer refuses a file longer than the limit.
fileSizeLimitExceeded(f) == f.size > MaxFileSize

\* ------------------------------------------------------- error propagation
\* (an error that is swallowed instead of rethrown)
ThrowsSwallowed(success) == FALSE

\* An awaited call that fails throws into the catch block of processVideo,
\* which logs and rethrows.
Throws(success) == ~success

\* The locals of processVideo end with the call.
Leave(rs) ==
    [rs EXCEPT !.transcription = NoText, !.thumbnail = NoFile, !.doc = NoDoc]

\* (a catch block that calls the failed stage again)
RejectRetries(rs, stage) ==
    IF stage \in {"snapshot", "audio", "transcribe"}
    THEN [rs EXCEPT !.started = Append(@, stage)]
    ELSE [rs EXCEPT !.pc = "rejected", !.error = stage, !.status = 500]

\* (history) the request is answered: res.status(400).json, res.status(201)
\* .json, or next(error), which the global error handler answers.
Reply(rs, kind) == [rs EXCEPT !.replies = Append(@, kind)]

\* A catch block that logs the error and does not hand it on.
RejectWithoutNext(rs, stage) ==
    [Leave(rs) EXCEPT !.pc = "rejected", !.error = stage, !.status = 500]

\* processVideo rejects with the error of `stage'; the route's catch hands
\* it to next(error) and the global error handler answers 500.
Reject(rs, stage) ==
    Reply([Leave(rs) EXCEPT !.pc = "rejected", !.error = stage, !.status = 500],
          "next")

\* (history) the call of `stage' resolved / failed.
Done(rs, stage) == [rs EXCEPT !.completed = @ \cup {stage}]

Fail(rs, stage) == [rs EXCEPT !.failed = @ \cup {stage}]

\* Where processVideo stands while the call of `stage' is pending.
StagePc(stage) ==
    CASE stage = "write" -> "writing"
      [] stage = "snapshot" -> "snapshot"
      [] stage = "audio" -> "audio"
      [] stage = "transcribe" -> "transcribing"
      [] stage = "connect" -> "connecting"
      [] stage = "insert" -> "inserting"
      [] stage = "cleanup" -> "cleanup"

\* (the two ffmpeg calls in the other order)
StartAudioFirst(rs, stage) ==
    LET other == IF stage = "snapshot" THEN "audio"
                 ELSE IF stage = "audio" THEN "snapshot" ELSE stage
    IN [rs EXCEPT !.pc = StagePc(other), !.started = Append(@, other)]

\* (a run that starts over from the source write instead of inserting)
StartOver(rs, stage) ==
    IF stage = "insert"
    THEN [rs EXCEPT !.pc = StagePc("write"), !.started = <<"write">>,
                    !.completed = {}]
    ELSE [rs EXCEPT !.pc = StagePc(stage), !.started = Append(@, stage)]

\* processVideo makes the call of `stage' (history: the calls in order).
Start(rs, stage) ==
    [rs EXCEPT !.pc = StagePc(stage), !.started = Append(@, stage)]

SetRun(r, rs) == runs' = [runs EXCEPT ![r] = rs]

\* ------------------------------------------------------------ POST /upload
\* upload.single('video') followed by the route handler, up to the first
\* await of processVideo (the call of writeFileAsync).  The three paths are
\* built back to back from Date.now(), which counts milliseconds: they get
\* the same reading.  Requests are numbered in the order of their arrival.
Upload(r, f) ==
    /\ runs[r].pc = "idle"
    /\ \A q \in Runs : q < r => runs[q].pc # "idle"
    /\ LET rs == [runs[r] EXCEPT !.sent = f] IN
         IF f = NoUpload THEN
             SetRun(r, Reply([rs EXCEPT !.pc = "refused", !.status = 400], "400"))
         ELSE IF ~fileFilterAccepts(f) THEN
             SetRun(r, Reply([rs EXCEPT !.pc = "refused", !.status = 500,
                                        !.error = "fileFilter"], "multer"))
         ELSE IF fileSizeLimitExceeded(f) THEN
             SetRun(r, Reply([rs EXCEPT !.pc = "refused", !.status = 500,
                                        !.error = "LIMIT_FILE_SIZE"], "multer"))
         ELSE IF f.mimetype \notin routeAllowedTypes THEN
             SetRun(r, Reply([rs EXCEPT !.pc = "refused", !.status = 400], "400"))
         ELSE
             SetRun(r, Start([rs EXCEPT
                                 !.file = f,
                                 !.tempVideoPath = TempPath(now),
                                 !.thumbnailPath = ThumbnailPath(now),
                                 !.audioPath = AudioPath(now)], "write"))
    /\ UNCHANGED <<now, uploadsDir, recordings, cachedDb, connectCalls, nextOid, api, deleted, sweepVars, webVars>>

\* --------------------------------------------------------- processVideo
\* writeFileAsync settles; on success generateThumbnail starts ffmpeg.
WriteDone(r, ok) ==
    /\ runs[r].pc = "writing"
    /\ LET rs == runs[r] IN
         IF Throws(ok) THEN
             /\ SetRun(r, Reject(Fail(rs, "write"), "write"))
             /\ UNCHANGED uploadsDir
         ELSE
             /\ uploadsDir' = [uploadsDir EXCEPT ![rs.tempVideoPath] =
                                  IF ok THEN Bytes(r) ELSE @]
             /\ SetRun(r, Start(IF ok THEN Done(rs, "write")
                                 ELSE Fail(rs, "write"), "snapshot"))
    /\ UNCHANGED <<now, recordings, cachedDb, connectCalls, nextOid, api, deleted, sweepVars, webVars>>

\* The file holds no bytes: it was written from an upload of size 0.
IsEmpty(c) == c # NoFile /\ runs[c[2]].sent.size = 0

\* ffmpeg signals 'end' or 'error' for the screenshot; it needs its input,
\* and finds no video stream in a file of no bytes.
generateThumbnailSucceeds(ok, videoPath) ==
    ok /\ uploadsDir[videoPath] # NoFile /\ ~IsEmpty(uploadsDir[videoPath])

ThumbnailDone(r, ok) ==
    /\ runs[r].pc = "snapshot"
    /\ LET rs == runs[r]
             success == generateThumbnailSucceeds(ok, rs.tempVideoPath) IN
         IF Throws(success) THEN
             /\ SetRun(r, Reject(Fail(rs, "snapshot"), "snapshot"))
             /\ UNCHANGED uploadsDir
         ELSE
             /\ uploadsDir' = [uploadsDir EXCEPT ![rs.thumbnailPath] =
                                  IF success THEN Jpeg(uploadsDir[rs.tempVideoPath]) ELSE @]
             /\ SetRun(r, Start(IF success THEN Done(rs, "snapshot")
                                 ELSE Fail(rs, "snapshot"), "audio"))
    /\ UNCHANGED <<now, recordings, cachedDb, connectCalls, nextOid, api, deleted, sweepVars, webVars>>

\* ffmpeg signals 'end' or 'error' for the mp3; then transcribeAudio opens a
\* read stream on the audio file and sends the request.
extractAudioSucceeds(ok, videoPath) ==
    ok /\ uploadsDir[videoPath] # NoFile /\ ~IsEmpty(uploadsDir[videoPath])

AudioDone(r, ok) ==
    /\ runs[r].pc = "audio"
    /\ LET rs == runs[r]
             success == extractAudioSucceeds(ok, rs.tempVideoPath) IN
         IF Throws(success) THEN
             /\ SetRun(r, Reject(Fail(rs, "audio"), "audio"))
             /\ UNCHANGED uploadsDir
         ELSE
             /\ uploadsDir' = [uploadsDir EXCEPT ![rs.audioPath] =
                                  IF success THEN Mp3(uploadsDir[rs.tempVideoPath]) ELSE @]
             /\ SetRun(r, Start(IF success THEN Done(rs, "audio")
                                 ELSE Fail(rs, "audio"), "transcribe"))
    /\ UNCHANGED <<now, recordings, cachedDb, connectCalls, nextOid, api, deleted, sweepVars, webVars>>

\* (a document built without the transcription)
NewRecordingWithoutTranscription(file, oid, transcription, createdAt) ==
    [_id |-> oid, filename |-> file.originalname,
     originalName |-> file.originalname, mimeType |-> file.mimetype,
     size |-> file.size, transcription |-> NoText,
     createdAt |-> createdAt]

\* The document passed to insertOne (the thumbnail is read but not stored).
NewRecording(file, oid, transcription, createdAt) ==
    [_id |-> oid, filename |-> file.originalname,
     originalName |-> file.originalname, mimeType |-> file.mimetype,
     size |-> file.size, transcription |-> transcription,
     createdAt |-> createdAt]

\* After connectToDatabase: readFileSync(thumbnailPath, 'base64'), which
\* throws when the file is missing, then the call of insertOne with a fresh
\* ObjectId and the current date.
PrepareInsert(rs) ==
    IF uploadsDir[rs.thumbnailPath] = NoFile
    THEN Reject(Fail(rs, "readSnapshot"), "readSnapshot")
    ELSE Start([rs EXCEPT
                   !.thumbnail = Base64(uploadsDir[rs.thumbnailPath]),
                   !.doc = NewRecording(rs.file, nextOid, rs.transcription, now)],
               "insert")

\* The transcription request settles; the backend needs the audio stream.
transcribeAudioSucceeds(ok, audioPath) == ok /\ uploadsDir[audioPath] # NoFile

\* Then connectToDatabase: the cached handle, or a call of client.connect().
TranscribeDone(r, ok) ==
    /\ runs[r].pc = "transcribing"
    /\ LET rs == runs[r]
             success == transcribeAudioSucceeds(ok, rs.audioPath)
             rt == IF success
                   THEN [Done(rs, "transcribe") EXCEPT
                            !.transcription = Text(uploadsDir[rs.audioPath])]
                   ELSE Fail(rs, "transcribe") IN
         IF Throws(success) THEN
             /\ SetRun(r, Reject(rt, "transcribe"))
             /\ UNCHANGED <<connectCalls, nextOid>>
         ELSE IF cachedDb THEN
             /\ SetRun(r, PrepareInsert(rt))
             /\ nextOid' = IF PrepareInsert(rt).pc = "inserting"
                           THEN nextOid + 1 ELSE nextOid
             /\ UNCHANGED connectCalls
         ELSE
             /\ SetRun(r, Start(rt, "connect"))
             /\ connectCalls' = connectCalls + 1
             /\ UNCHANGED nextOid
    /\ UNCHANGED <<now, uploadsDir, recordings, cachedDb, api, deleted, sweepVars, webVars>>

\* client.connect() settles: the handle is cached and the insert prepared.
ConnectDone(r, ok) ==
    /\ runs[r].pc = "connecting"
    /\ LET rs == runs[r] IN
         IF Throws(ok) THEN
             /\ SetRun(r, Reject(Fail(rs, "connect"), "connect"))
             /\ UNCHANGED <<cachedDb, nextOid>>
         ELSE
             /\ cachedDb' = (ok \/ cachedDb)
             /\ SetRun(r, PrepareInsert(IF ok THEN Done(rs, "connect")
                                         ELSE Fail(rs, "connect")))
             /\ nextOid' = IF PrepareInsert(rs).pc = "inserting"
                           THEN nextOid + 1 ELSE nextOid
    /\ UNCHANGED <<now, uploadsDir, recordings, connectCalls, api, deleted, sweepVars, webVars>>

\* fs.unlinkSync(path): throws when the file is missing (ENOENT) or when the
\* file system refuses (eio); otherwise the file is gone.
unlinkSyncThrows(dir, path, eio) == eio \/ dir[path] = NoFile

unlinkSync(dir, path) == [dir EXCEPT ![path] = NoFile]

\* The three unlinkSync calls in the order of the code; the first that
\* throws ends the cleanup.  `bad' is the call the file system refuses
\* (0: none).
Cleanup(dir, rs, bad) ==
    IF unlinkSyncThrows(dir, rs.tempVideoPath, bad = 1)
    THEN [dir |-> dir, threw |-> TRUE]
    ELSE LET d1 == unlinkSync(dir, rs.tempVideoPath) IN
         IF unlinkSyncThrows(d1, rs.audioPath, bad = 2)
         THEN [dir |-> d1, threw |-> TRUE]
         ELSE LET d2 == unlinkSync(d1, rs.audioPath) IN
              IF unlinkSyncThrows(d2, rs.thumbnailPath, bad = 3)
              THEN [dir |-> d2, threw |-> TRUE]
              ELSE [dir |-> unlinkSync(d2, rs.thumbnailPath), threw |-> FALSE]

\* What processVideo returns.
Result(insertedId, transcription) ==
    [id |-> toString(insertedId), transcription |-> transcription]

\* insertOne settles; on success the temporary files are unlinked and the
\* result is returned, and the route answers 201.
InsertDone(r, ok, bad) ==
    /\ runs[r].pc = "inserting"
    /\ LET rs == runs[r] IN
         IF Throws(ok) THEN
             /\ bad = 0
             /\ SetRun(r, Reject(Fail(rs, "insert"), "insert"))
             /\ UNCHANGED <<recordings, uploadsDir>>
         ELSE
             LET ri == Start(IF ok THEN [Done(rs, "insert") EXCEPT
                                            !.inserts = @ + 1,
                                            !.insertedId = rs.doc._id]
                             ELSE Fail(rs, "insert"), "cleanup")
                 c == Cleanup(uploadsDir, ri, bad) IN
             /\ recordings' = IF ok THEN Append(recordings, ri.doc) ELSE recordings
             /\ uploadsDir' = c.dir
             /\ IF c.threw
                THEN SetRun(r, Reject(Fail(ri, "cleanup"), "cleanup"))
                ELSE SetRun(r, Reply([Leave(Done(ri, "cleanup")) EXCEPT
                                   !.pc = "returned", !.status = 201,
                                   !.result = Result(ri.insertedId, ri.transcription)],
                                     "201"))
    /\ UNCHANGED <<now, cachedDb, connectCalls, nextOid, api, deleted, sweepVars, webVars>>

\* The clock is read for the paths (Date.now()) and for createdAt (new
\* Date()); the program depends only on which readings are equal and on
\* their order.
ClockReadPending ==
    \E r \in Runs :
        runs[r].pc \in {"idle", "writing", "snapshot", "audio",
                        "transcribing", "connecting"}

ClockReadTaken ==
    \/ \E r \in Runs :
          runs[r].tempVideoPath = TempPath(now) \/ runs[r].doc.createdAt = now
    \/ \E i \in 1..Len(recordings) : recordings[i].createdAt = now

\* Time passes: the clock moves on from a reading that was taken, while a
\* reading is still to come.
Tick ==
    /\ now < MaxClock
    /\ ClockReadPending
    /\ ClockReadTaken
    /\ now' = now + 1
    /\ UNCHANGED <<uploadsDir, recordings, cachedDb, connectCalls, nextOid, runs, api, deleted, sweepVars, webVars>>

Next ==
    \/ \E r \in Runs : \E f \in Uploads(r) : Upload(r, f)
    \/ \E r \in Runs, ok \in BOOLEAN : WriteDone(r, ok)
    \/ \E r \in Runs, ok \in BOOLEAN : ThumbnailDone(r, ok)
    \/ \E r \in Runs, ok \in BOOLEAN : AudioDone(r, ok)
    \/ \E r \in Runs, ok \in BOOLEAN : TranscribeDone(r, ok)
    \/ \E r \in Runs, ok \in BOOLEAN : ConnectDone(r, ok)
    \/ \E r \in Runs, ok \in BOOLEAN, bad \in 0..3 : InsertDone(r, ok, bad)
    \/ Tick

Spec == Init /\ [][Next]_vars

\* Every external call of a run eventually signals completion or error:
\* the step that resumes the run after its pending call is taken.
RunStep(r) ==
    \/ \E ok \in BOOLEAN : WriteDone(r, ok)
    \/ \E ok \in BOOLEAN : ThumbnailDone(r, ok)
    \/ \E ok \in BOOLEAN : AudioDone(r, ok)
    \/ \E ok \in BOOLEAN : TranscribeDone(r, ok)
    \/ \E ok \in BOOLEAN : ConnectDone(r, ok)
    \/ \E ok \in BOOLEAN, bad \in 0..3 : InsertDone(r, ok, bad)

\* A request that arrives while at most one run is in progress.
UploadPair(r, f) ==
    /\ Cardinality({q \in Runs : InProgress(runs[q])}) <= 1
    /\ Upload(r, f)

NextLive ==
    \/ \E r \in Runs : \E f \in Uploads(r) : UploadPair(r, f)
    \/ \E r \in Runs : RunStep(r)
    \/ Tick

\* The behaviours in which runs overlap at most two at a time and no
\* pending call stays pending for ever.
SpecLive == Init /\ [][NextLive]_vars /\ \A r \in Runs : WF_vars(RunStep(r))

\* Concurrent valid uploads whose external calls all succeed: every upload
\* starts while no run has ended, so any two started runs overlap.
\* (A run that meets ENOENT still ends, by its own code.)
UploadConcurrent(r) ==
    /\ \A q \in Runs : ~Terminal(runs[q])
    /\ Upload(r, ValidUpload(r))

NextConcurrent ==
    \/ \E r \in Runs : UploadConcurrent(r)
    \/ \E r \in Runs : WriteDone(r, TRUE)
    \/ \E r \in Runs : ThumbnailDone(r, TRUE)
    \/ \E r \in Runs : AudioDone(r, TRUE)
    \/ \E r \in Runs : TranscribeDone(r, TRUE)
    \/ \E r \in Runs : ConnectDone(r, TRUE)
    \/ \E r \in Runs : InsertDone(r, TRUE, 0)
    \/ Tick

SpecConcurrent == Init /\ [][NextConcurrent]_vars

\* The uploads of Spec and, besides, uploads of a video file of no bytes.
UploadEmpty(r) == Upload(r, EmptyUpload)

NextWithEmpty ==
    \/ Next
    \/ \E r \in Runs : UploadEmpty(r)

SpecWithEmpty == Init /\ [][NextWithEmpty]_vars

\* ------------------------------------------------------------- the store
\* new ObjectId(id) throws unless id is a string of 24 hex digits.
ObjectIdThrows(id) == ~isValidHex(id)

\* new ObjectId(id) for a well-formed id.
ObjectId(id) == HexValue(id)

\* collection.findOne({ _id: oid }) on the collection coll.
findOne(coll, oid) ==
    IF \E i \in 1..Len(coll) : coll[i]._id = oid
    THEN coll[CHOOSE i \in 1..Len(coll) : coll[i]._id = oid]
    ELSE NoDoc

getRecording(id) == findOne(recordings, ObjectId(id))

\* collection.find().sort({ createdAt: -1 }).toArray(): the results the
\* store may return, every stored record once, newest first.  createdAt is
\* the only sort key: the store is free in the order of records that have
\* the same createdAt.
getRecordings ==
    LET n == Len(recordings)
        perms == {p \in [1..n -> 1..n] : \A i, j \in 1..n : i # j => p[i] # p[j]}
        sorted(p) == \A i \in 1..n, j \in 1..n :
            i < j => recordings[p[i]].createdAt >= recordings[p[j]].createdAt
    IN { [i \in 1..n |-> recordings[p[i]]] : p \in {q \in perms : sorted(q)} }

\* (a delete that removes the oldest document whatever the filter says)
deleteOldest(coll, oid) == IF coll = <<>> THEN coll ELSE Tail(coll)

\* collection.deleteOne({ _id: oid }): the first document that matches is
\* removed; no match is not an error.
deleteOne(coll, oid) ==
    IF \E i \in 1..Len(coll) : coll[i]._id = oid
    THEN LET k == CHOOSE i \in 1..Len(coll) :
                      /\ coll[i]._id = oid
                      /\ \A j \in 1..(i - 1) : coll[j]._id # oid
         IN SubSeq(coll, 1, k - 1) \o SubSeq(coll, k + 1, Len(coll))
    ELSE coll

\* ------------------------------- GET /recordings, GET /:id, DELETE /:id
\* The :id a client may send: the identifiers of the first two records
\* (before or after they exist) and a string that is no ObjectId.
MalformedId == <<1, 2, 3>>
ApiIds == {toString(1), toString(2), MalformedId}

\* The handler has the Db handle.  getRecording and deleteRecording build
\* the filter first: new ObjectId(id) throws on a malformed id, the route's
\* catch hands the error to next(error) and the global error handler
\* answers 500.  Otherwise the query is sent.
Query(op, id) ==
    IF op # "list" /\ ObjectIdThrows(id)
    THEN [NoApi EXCEPT !.op = op, !.id = id, !.pc = "done",
                       !.status = 500, !.error = "BSONError"]
    ELSE [NoApi EXCEPT !.op = op, !.id = id, !.pc = "querying"]

\* A service method starts with connectToDatabase: the cached handle, or a
\* call of client.connect().
Call(op, id) ==
    IF cachedDb THEN Query(op, id)
    ELSE [NoApi EXCEPT !.op = op, !.id = id, !.pc = "connecting"]

ConnectCallsAfterCall == IF cachedDb THEN connectCalls ELSE connectCalls + 1

\* GET /recordings: the handler calls getRecordings().
GetRecordings ==
    /\ api.pc \in {"idle", "done"}
    /\ api' = Call("list", <<>>)
    /\ connectCalls' = ConnectCallsAfterCall
    /\ UNCHANGED <<now, uploadsDir, recordings, cachedDb, nextOid, runs, deleted, sweepVars, webVars>>

\* GET /:id: the handler calls getRecording(id).
GetRecording(id) ==
    /\ api.pc \in {"idle", "done"}
    /\ api' = Call("get", id)
    /\ connectCalls' = ConnectCallsAfterCall
    /\ UNCHANGED <<now, uploadsDir, recordings, cachedDb, nextOid, runs, deleted, sweepVars, webVars>>

\* DELETE /:id: the handler calls deleteRecording(id).
DeleteRecording(id) ==
    /\ api.pc \in {"idle", "done"}
    /\ api' = Call("delete", id)
    /\ connectCalls' = ConnectCallsAfterCall
    /\ UNCHANGED <<now, uploadsDir, recordings, cachedDb, nextOid, runs, deleted, sweepVars, webVars>>

\* client.connect() settles for the GET / DELETE handler.
ApiConnectDone(ok) ==
    /\ api.pc = "connecting"
    /\ IF ok THEN
           /\ cachedDb' = TRUE
           /\ api' = Query(api.op, api.id)
       ELSE
           /\ api' = [api EXCEPT !.pc = "done", !.status = 500, !.error = "connect"]
           /\ UNCHANGED cachedDb
    /\ UNCHANGED <<now, uploadsDir, recordings, connectCalls, nextOid, runs, deleted, sweepVars, webVars>>

\* A query that fails rejects; the route answers through next(error).
QueryFailed == [api EXCEPT !.pc = "done", !.status = 500, !.error = "query"]

\* toArray() settles with one of the listings the store may return;
\* res.json(recordings).
GetRecordingsDone(ok) ==
    /\ api.pc = "querying" /\ api.op = "list"
    /\ \E l \in getRecordings :
          api' = IF ok
                 THEN [api EXCEPT !.pc = "done", !.status = 200, !.listing = l]
                 ELSE QueryFailed
    /\ UNCHANGED <<now, uploadsDir, recordings, cachedDb, connectCalls, nextOid,
                   runs, deleted, sweepVars, webVars>>

\* findOne settles: null is answered 404, a record 200.
GetRecordingDone(ok) ==
    /\ api.pc = "querying" /\ api.op = "get"
    /\ api' = IF ok
              THEN LET recording == getRecording(api.id) IN
                   [api EXCEPT !.pc = "done", !.recording = recording,
                               !.status = IF recording = NoDoc THEN 404 ELSE 200]
              ELSE QueryFailed
    /\ UNCHANGED <<now, uploadsDir, recordings, cachedDb, connectCalls, nextOid,
                   runs, deleted, sweepVars, webVars>>

\* deleteOne settles: the route answers 204.
DeleteRecordingDone(ok) ==
    /\ api.pc = "querying" /\ api.op = "delete"
    /\ IF ok THEN
           LET oid == ObjectId(api.id) IN
           /\ recordings' = deleteOne(recordings, oid)
           /\ deleted' = IF recordings' # recordings THEN deleted \cup {oid}
                         ELSE deleted
           /\ api' = [api EXCEPT !.pc = "done", !.status = 204]
       ELSE
           /\ api' = QueryFailed
           /\ UNCHANGED <<recordings, deleted>>
    /\ UNCHANGED <<now, uploadsDir, cachedDb, connectCalls, nextOid, runs, sweepVars, webVars>>

\* The store API used against the records of uploads that run one at a
\* time; every external call succeeds.
UploadAlone(r) ==
    /\ \A q \in Runs : ~InProgress(runs[q])
    /\ Upload(r, ValidUpload(r))

NextStore ==
    \/ \E r \in Runs : UploadAlone(r)
    \/ \E r \in Runs : WriteDone(r, TRUE)
    \/ \E r \in Runs : ThumbnailDone(r, TRUE)
    \/ \E r \in Runs : AudioDone(r, TRUE)
    \/ \E r \in Runs : TranscribeDone(r, TRUE)
    \/ \E r \in Runs : ConnectDone(r, TRUE)
    \/ \E r \in Runs : InsertDone(r, TRUE, 0)
    \/ Tick
    \/ GetRecordings
    \/ \E id \in ApiIds : GetRecording(id)
    \/ \E id \in ApiIds : DeleteRecording(id)
    \/ ApiConnectDone(TRUE)
    \/ GetRecordingsDone(TRUE)
    \/ GetRecordingDone(TRUE)
    \/ DeleteRecordingDone(TRUE)

SpecStore == Init /\ [][NextStore]_vars

\* GET /recordings while concurrent uploads, whose external calls all
\* succeed, fill the store.
NextListing ==
    \/ NextConcurrent
    \/ GetRecordings
    \/ ApiConnectDone(TRUE)
    \/ GetRecordingsDone(TRUE)

SpecListing == Init /\ [][NextListing]_vars

\* ------------------------------------------------------ the hourly sweep
\* A write sets the file's modification time to the present.
Written(dir, path) == [dir EXCEPT ![path] = Aged(0)]

\* n requests start processVideo in the same millisecond; the paths are
\* named and writeFile is called.
UploadsAtOnce(n) ==
    /\ \A r \in Runs : writers[r] = "idle"
    /\ writers' = [r \in Runs |-> IF r <= n THEN "writing" ELSE "idle"]
    /\ UNCHANGED <<serverVars, webVars, mtimes, timer, sweep>>

\* A run that throws is over; processVideo's catch rethrows and its files
\* stay where they are.
Ended(r) == [writers EXCEPT ![r] = "ended"]

\* writeFile settles.
SweepWriteDone(r, ok) ==
    /\ writers[r] = "writing"
    /\ IF ok
       THEN /\ mtimes' = Written(mtimes, SweepRun.tempVideoPath)
            /\ writers' = [writers EXCEPT ![r] = "snapshot"]
       ELSE /\ writers' = Ended(r)
            /\ UNCHANGED mtimes
    /\ UNCHANGED <<serverVars, webVars, timer, sweep>>

\* generateThumbnail settles: the engine read the video and wrote the
\* snapshot, or failed (as it must when the video is gone).
SweepThumbnailDone(r, ok) ==
    /\ writers[r] = "snapshot"
    /\ IF ok /\ mtimes[SweepRun.tempVideoPath] # NoFile
       THEN /\ mtimes' = Written(mtimes, SweepRun.thumbnailPath)
            /\ writers' = [writers EXCEPT ![r] = "audio"]
       ELSE /\ writers' = Ended(r)
            /\ UNCHANGED mtimes
    /\ UNCHANGED <<serverVars, webVars, timer, sweep>>

\* extractAudio settles.
SweepAudioDone(r, ok) ==
    /\ writers[r] = "audio"
    /\ IF ok /\ mtimes[SweepRun.tempVideoPath] # NoFile
       THEN /\ mtimes' = Written(mtimes, SweepRun.audioPath)
            /\ writers' = [writers EXCEPT ![r] = "storing"]
       ELSE /\ writers' = Ended(r)
            /\ UNCHANGED mtimes
    /\ UNCHANGED <<serverVars, webVars, timer, sweep>>

\* Transcription, connection and insert settle; when all succeeded the
\* three unlinkSync calls follow.
SweepStored(r, ok) ==
    /\ writers[r] = "storing"
    /\ writers' = Ended(r)
    /\ IF ok /\ mtimes[SweepRun.thumbnailPath] # NoFile
       THEN mtimes' = Cleanup(mtimes, SweepRun, 0).dir
       ELSE UNCHANGED mtimes
    /\ UNCHANGED <<serverVars, webVars, timer, sweep>>

SweepBusy == sweep.readdir \/ sweep.listed # {} \/ sweep.unlinking # {}

\* A sweep with no callback left is over.
Swept(sw) ==
    IF sw.readdir \/ sw.listed # {} \/ sw.unlinking # {} THEN sw ELSE NoSweep

\* One tick of time passes.
SweepTick ==
    /\ timer > 0
    /\ SweepBusy => sweep.elapsed < MaxSweepLag
    /\ timer' = timer - 1
    /\ mtimes' = [p \in SweepFiles |->
                    IF mtimes[p] = NoFile \/ Age(mtimes[p]) = AgeCap
                    THEN mtimes[p] ELSE Aged(Age(mtimes[p]) + 1)]
    /\ sweep' = IF SweepBusy THEN [sweep EXCEPT !.elapsed = @ + 1] ELSE sweep
    /\ UNCHANGED <<serverVars, webVars, writers>>

\* The setInterval callback runs: it reads Date.now() and calls readdir;
\* the timer is set for the next hour.
SweepStart ==
    /\ timer = 0
    /\ timer' = TicksPerHour
    /\ sweep' = [NoSweep EXCEPT !.readdir = TRUE]
    /\ UNCHANGED <<serverVars, webVars, mtimes, writers>>

\* readdir's callback: on an error the sweep is over, otherwise stat is
\* called for every file of the listing.
ReaddirDone(ok) ==
    /\ sweep.readdir
    /\ sweep' = IF ok
                THEN Swept([sweep EXCEPT !.readdir = FALSE,
                                         !.listed = {p \in SweepFiles : mtimes[p] # NoFile}])
                ELSE NoSweep
    /\ UNCHANGED <<serverVars, webVars, mtimes, timer, writers>>

\* now - stats.mtimeMs > 3600000, with `since' the time from the sweep's
\* Date.now() to the present.
OlderThanOneHour(entry, since) == Age(entry) - since > TicksPerHour

\* stat's callback for one file of the listing: an error (the file is gone,
\* or the file system refuses) is logged; a file older than an hour gets
\* unlink called.
StatDone(p, ok) ==
    /\ p \in sweep.listed
    /\ LET sw == [sweep EXCEPT !.listed = @ \ {p}] IN
         sweep' = IF ok /\ mtimes[p] # NoFile
                     /\ OlderThanOneHour(mtimes[p], sweep.elapsed)
                  THEN [sw EXCEPT !.unlinking = @ \cup {p}]
                  ELSE Swept(sw)
    /\ UNCHANGED <<serverVars, webVars, mtimes, timer, writers>>

\* unlink is carried out, or fails and the error is logged.
UnlinkDone(p, ok) ==
    /\ p \in sweep.unlinking
    /\ sweep' = Swept([sweep EXCEPT !.unlinking = @ \ {p}])
    /\ mtimes' = IF ok THEN unlinkSync(mtimes, p) ELSE mtimes
    /\ UNCHANGED <<serverVars, webVars, timer, writers>>

WriterStep(r) ==
    \/ \E ok \in BOOLEAN : SweepWriteDone(r, ok)
    \/ \E ok \in BOOLEAN : SweepThumbnailDone(r, ok)
    \/ \E ok \in BOOLEAN : SweepAudioDone(r, ok)
    \/ \E ok \in BOOLEAN : SweepStored(r, ok)

NextSweep ==
    \/ \E n \in Runs : UploadsAtOnce(n)
    \/ \E r \in Runs : WriterStep(r)
    \/ SweepTick
    \/ SweepStart
    \/ \E ok \in BOOLEAN : ReaddirDone(ok)
    \/ \E p \in SweepFiles, ok \in BOOLEAN : StatDone(p, ok)
    \/ \E p \in SweepFiles, ok \in BOOLEAN : UnlinkDone(p, ok)

\* Time passes, the timer fires, and a file system call that is made again
\* and again does not fail every time.
SpecSweep ==
    /\ Init /\ [][NextSweep]_vars
    /\ WF_vars(SweepTick) /\ WF_vars(SweepStart)
    /\ SF_vars(ReaddirDone(TRUE))
    /\ \A p \in SweepFiles : SF_vars(StatDone(p, TRUE)) /\ SF_vars(UnlinkDone(p, TRUE))

\* -------------------------------------------------------- VideoRecorder
\* Which buttons the rendering shows.
CanStart == ~recordedVideoUrl /\ ~isRecording

CanStop ==
    IF layout = "part_001" THEN ~recordedVideoUrl /\ isRecording ELSE isRecording

CanUpload == recordedVideoUrl

CanToggleMicrophone == layout = "part_001" /\ CanStart

\* A recorder nothing refers to any more and whose events have all fired.
Free(i) ==
    \/ recorders[i].state = "none"
    \/ /\ recorders[i].state = "inactive" /\ ~recorders[i].onstop
       /\ mediaRecorderRef # i /\ streamRef # i

FirstFree == CHOOSE i \in Recorders : Free(i) /\ \A j \in Recorders : Free(j) => i <= j

\* Recorders that nothing refers to and that have no event left are
\* garbage; `ref' and `sref' are the two refs.
Collected(recs, ref, sref) ==
    [i \in Recorders |->
        IF recs[i].state = "inactive" /\ ~recs[i].onstop /\ ref # i /\ sref # i
        THEN NoRecorder ELSE recs[i]]

\* recorder.stop(), or the end of every track of its stream: the recorder
\* turns inactive and its stop event is queued.
Stopped(recs, i) ==
    IF i # 0 /\ recs[i].state = "recording"
    THEN [recs EXCEPT ![i].state = "inactive", ![i].onstop = TRUE]
    ELSE recs

\* streamRef.current?.getTracks().forEach(track => track.stop())
TracksStopped(recs) == Stopped(recs, streamRef)

\* startRecording up to its await: the state is cleared and getUserMedia is
\* called.
StartRecording ==
    /\ CanStart
    /\ gumPending + Cardinality({i \in Recorders : ~Free(i)}) < MaxRecorders
    /\ recordedVideoUrl' = FALSE
    /\ transcript' = NoTranscript
    /\ gumPending' = gumPending + 1
    /\ event' = Event("startRecording")
    /\ afterReset' = FALSE
    /\ UNCHANGED <<status, isRecording, recordedChunks, isMicrophoneEnabled,
                   facingMode, mediaRecorderRef, streamRef, recorders,
                   fetchPending, layout>>
    /\ UNCHANGED <<serverVars, sweepVars>>

\* switchCamera (shown on a mobile device): the tracks held are stopped,
\* facingMode is toggled and startRecording is called.
SwitchCamera ==
    /\ CanStart
    /\ gumPending + Cardinality({i \in Recorders : ~Free(i)}) < MaxRecorders
    /\ recorders' = TracksStopped(recorders)
    /\ facingMode' = IF facingMode = "user" THEN "environment" ELSE "user"
    /\ recordedVideoUrl' = FALSE
    /\ transcript' = NoTranscript
    /\ gumPending' = gumPending + 1
    /\ event' = Event("switchCamera")
    /\ afterReset' = FALSE
    /\ UNCHANGED <<status, isRecording, recordedChunks, isMicrophoneEnabled,
                   mediaRecorderRef, streamRef, fetchPending, layout>>
    /\ UNCHANGED <<serverVars, sweepVars>>

\* The rest of startRecording, after getUserMedia settled: with a stream
\* ("ok") a recorder is made and started; a rejection ("rejected") or a
\* throwing MediaRecorder constructor ("unsupported", the stream is already
\* in streamRef) ends in the catch.
GetUserMediaSettled(outcome) ==
    /\ gumPending > 0
    /\ gumPending' = gumPending - 1
    /\ event' = <<"getUserMedia", outcome>>
    /\ CASE outcome = "ok" ->
              /\ recorders' = Collected([recorders EXCEPT ![FirstFree] =
                                 [state |-> "recording", chunks |-> 0, onstop |-> FALSE]],
                                         FirstFree, FirstFree)
              /\ mediaRecorderRef' = FirstFree
              /\ streamRef' = FirstFree
              /\ isRecording' = TRUE
              /\ status' = "recording"
         [] outcome = "unsupported" ->
              /\ streamRef' = 0
              /\ recorders' = Collected(recorders, mediaRecorderRef, 0)
              /\ status' = "error"
              /\ UNCHANGED <<mediaRecorderRef, isRecording>>
         [] outcome = "rejected" ->
              /\ status' = "error"
              /\ UNCHANGED <<recorders, mediaRecorderRef, streamRef, isRecording>>
    /\ UNCHANGED <<recordedChunks, recordedVideoUrl, transcript,
                   isMicrophoneEnabled, facingMode, fetchPending, layout, afterReset>>
    /\ UNCHANGED <<serverVars, sweepVars>>

\* ondataavailable with data: the chunk is pushed.  It fires while the
\* recorder records and once more before its stop event.
DataAvailable(i) ==
    /\ recorders[i].state = "recording" \/ recorders[i].onstop
    /\ recorders[i].chunks = 0
    /\ recorders' = [recorders EXCEPT ![i].chunks = 1]
    /\ event' = Event("ondataavailable")
    /\ UNCHANGED <<status, isRecording, recordedChunks, recordedVideoUrl,
                   transcript, isMicrophoneEnabled, facingMode, mediaRecorderRef,
                   streamRef, gumPending, fetchPending, layout, afterReset>>
    /\ UNCHANGED <<serverVars, sweepVars>>

\* stopRecording: recorder.stop() throws on a recorder that is not
\* recording, and the catch then only sets the error message.
StopRecording ==
    /\ CanStop
    /\ event' = Event("stopRecording")
    /\ IF mediaRecorderRef # 0 /\ isRecording
          /\ recorders[mediaRecorderRef].state = "recording"
       THEN /\ recorders' = TracksStopped(Stopped(recorders, mediaRecorderRef))
            /\ isRecording' = FALSE
            /\ status' = "recorded"
       ELSE UNCHANGED <<recorders, isRecording, status>>
    /\ UNCHANGED <<recordedChunks, recordedVideoUrl, transcript,
                   isMicrophoneEnabled, facingMode, mediaRecorderRef, streamRef,
                   gumPending, fetchPending, layout, afterReset>>
    /\ UNCHANGED <<serverVars, sweepVars>>

\* mediaRecorder.onstop: the chunks and the URL of their blob are stored;
\* the array of chunks is from now on that of recordedChunks.
OnStop(i) ==
    /\ recorders[i].onstop
    /\ recorders' = Collected([recorders EXCEPT ![i].onstop = FALSE, ![i].chunks = 0],
                              mediaRecorderRef, streamRef)
    /\ recordedChunks' = recorders[i].chunks
    /\ recordedVideoUrl' = TRUE
    /\ event' = Event("onstop")
    /\ UNCHANGED <<status, isRecording, transcript, isMicrophoneEnabled,
                   facingMode, mediaRecorderRef, streamRef, gumPending,
                   fetchPending, layout, afterReset>>
    /\ UNCHANGED <<serverVars, sweepVars>>

\* An uploadVideo that goes on whatever was recorded.
UploadNeverReturnsAtOnce == FALSE

\* recordedChunks.length === 0: uploadVideo returns.
UploadReturnsAtOnce == recordedChunks = 0

\* uploadVideo up to its await.
UploadVideo ==
    /\ CanUpload
    /\ event' = Event("uploadVideo")
    /\ IF UploadReturnsAtOnce
       THEN UNCHANGED <<status, fetchPending, afterReset>>
       ELSE /\ fetchPending < MaxFetches
            /\ status' = "processing"
            /\ fetchPending' = fetchPending + 1
            /\ afterReset' = FALSE
    /\ UNCHANGED <<isRecording, recordedChunks, recordedVideoUrl, transcript,
                   isMicrophoneEnabled, facingMode, mediaRecorderRef, streamRef,
                   recorders, gumPending, layout>>
    /\ UNCHANGED <<serverVars, sweepVars>>

\* What the request can come to: fetch rejects; the response is not ok;
\* the response is ok and response.json() resolves, or rejects.
FetchOutcomes == {"rejected", "not ok", "ok", "ok, no json"}

Transcription == <<"transcription">>

\* The rest of uploadVideo, after fetch and response.json() settled (no
\* state is set between the two); everything that throws ends in the catch.
FetchSettled(outcome) ==
    /\ fetchPending > 0
    /\ fetchPending' = fetchPending - 1
    /\ event' = <<"fetch", outcome>>
    /\ IF outcome = "ok"
       THEN /\ transcript' = Transcription
            /\ status' = "uploaded"
       ELSE /\ status' = "error"
            /\ UNCHANGED transcript
    /\ UNCHANGED <<isRecording, recordedChunks, recordedVideoUrl,
                   isMicrophoneEnabled, facingMode, mediaRecorderRef, streamRef,
                   recorders, gumPending, layout, afterReset>>
    /\ UNCHANGED <<serverVars, sweepVars>>

ResetRecording ==
    /\ CanUpload
    /\ recordedChunks' = 0
    /\ recordedVideoUrl' = FALSE
    /\ transcript' = NoTranscript
    /\ status' = "idle"
    /\ isRecording' = FALSE
    /\ event' = Event("resetRecording")
    /\ afterReset' = TRUE
    /\ UNCHANGED <<isMicrophoneEnabled, facingMode, mediaRecorderRef, streamRef,
                   recorders, gumPending, fetchPending, layout>>
    /\ UNCHANGED <<serverVars, sweepVars>>

ToggleMicrophone ==
    /\ CanToggleMicrophone
    /\ isMicrophoneEnabled' = ~isMicrophoneEnabled
    /\ event' = Event("toggleMicrophone")
    /\ UNCHANGED <<status, isRecording, recordedChunks, recordedVideoUrl,
                   transcript, facingMode, mediaRecorderRef, streamRef, recorders,
                   gumPending, fetchPending, layout, afterReset>>
    /\ UNCHANGED <<serverVars, sweepVars>>

NextWeb ==
    \/ StartRecording
    \/ SwitchCamera
    \/ \E outcome \in {"ok", "unsupported", "rejected"} : GetUserMediaSettled(outcome)
    \/ \E i \in Recorders : DataAvailable(i)
    \/ StopRecording
    \/ \E i \in Recorders : OnStop(i)
    \/ UploadVideo
    \/ \E outcome \in FetchOutcomes : FetchSettled(outcome)
    \/ ResetRecording
    \/ ToggleMicrophone

InitWeb == \E l \in Layouts : InitLayout(l)

SpecWeb == InitWeb /\ [][NextWeb]_vars

\* ------------------------------------------------------------ responses
\* process.env.NODE_ENV.
NodeEnvs == {"production", "development"}

\* The global error handler: always 500; the message of the error is
\* replaced by a fixed text in production.
ErrorResponse(env, message) ==
    [status |-> 500,
     error |-> IF env = "production" THEN "An unexpected error occurred"
               ELSE message]

\* The response to the upload request of the run rs: the 400 answers of the
\* route, the answer of the global error handler to an error of multer or
\* of processVideo, or 201.
Response(env, rs) ==
    CASE rs.status = 500 -> ErrorResponse(env, rs.error)
      [] rs.status = 400 ->
            [status |-> 400,
             error |-> IF rs.sent = NoUpload THEN "No video file uploaded"
                       ELSE "Invalid file type. Only video files are allowed."]
      [] OTHER -> [status |-> rs.status, error |-> ""]

\* ------------------------------------------------------- claim vocabulary
RunPaths(rs) == {rs.tempVideoPath, rs.thumbnailPath, rs.audioPath}

Stored(oid) == \E i \in 1..Len(recordings) : recordings[i]._id = oid

Invalid(f) ==
    f # NoUpload /\ (f.mimetype \notin allowedTypes \/ f.size > MaxFileSize)

PipelineStages == {"write", "snapshot", "audio", "transcribe"}

Range(seq) == {seq[i] : i \in 1..Len(seq)}

\* How many times the run made the call of `stage'.
Calls(rs, stage) ==
    Cardinality({i \in 1..Len(rs.started) : rs.started[i] = stage})

\* The calls of processVideo in the order of its code; connect is made
\* only while no Db handle is cached.
CallOrder ==
    <<"write", "snapshot", "audio", "transcribe", "connect", "insert", "cleanup">>

\* The position of the record d in the insertion order.
InsertionIndex(d) == CHOOSE i \in 1..Len(recordings) : recordings[i] = d

\* A record with the identifier written id is in the store.
HasRecord(id) == \E i \in 1..Len(recordings) : toString(recordings[i]._id) = id

\* The step on which the GET or DELETE handler op answers its request.
Answers(op) == api'.op = op /\ api'.pc = "done" /\ api' # api

\* ---------------------------------------------------------------- claims
\* C1: when processVideo has returned or rejected, none of the run's
\* temporary files (source, thumbnail, audio) exists in the uploads
\* directory.
C1_NoTempFilesAfterRun ==
    \A r \in Runs :
        Terminal(runs[r]) =>
            \A p \in RunPaths(runs[r]) : uploadsDir[p] = NoFile

\* C2: a run that returned has performed exactly one insert, a run that
\* rejected has performed none.
C2_InsertCountMatchesOutcome ==
    \A r \in Runs :
        /\ runs[r].pc = "returned" => runs[r].inserts = 1
        /\ runs[r].pc = "rejected" => runs[r].inserts = 0

\* C3: every record in the store was inserted by a run whose source write,
\* snapshot extraction, audio extraction and transcription all completed
\* successfully before the insert.
C3_RecordOnlyAfterStages ==
    /\ \A i \in 1..Len(recordings) :
          \E r \in Runs :
              /\ runs[r].insertedId = recordings[i]._id
              /\ PipelineStages \subseteq runs[r].completed
    /\ \A r \in Runs :
          (runs[r].inserts > 0 \/ runs[r].pc = "inserting")
              => PipelineStages \subseteq runs[r].completed

C3_Witness ==
    \E r \in Runs :
        /\ runs[r].inserts = 1
        /\ Stored(runs[r].insertedId)
        /\ PipelineStages \subseteq runs[r].completed

\* C4: an upload with a mimetype outside the allow-list or a size above the
\* limit is refused before processVideo starts: the request never gets
\* temporary paths, completes no stage and inserts nothing, and the step
\* that refuses it changes neither the uploads directory nor the
\* collection.
C4_InvalidUploadRefused ==
    [][\A r \in Runs :
          Invalid(runs'[r].sent) =>
              /\ runs'[r].pc = "refused"
              /\ RunPaths(runs'[r]) = {NoPath}
              /\ runs'[r].completed = {}
              /\ runs'[r].inserts = 0
              /\ runs[r].pc = "idle" =>
                     /\ uploadsDir' = uploadsDir
                     /\ recordings' = recordings]_vars

C4_Witness ==
    \E r1 \in Runs, r2 \in Runs :
        /\ runs[r1].sent.mimetype = "application/pdf"
        /\ runs[r1].pc = "refused"
        /\ runs[r2].sent.size > MaxFileSize
        /\ runs[r2].pc = "refused"

\* C5: two runs in progress at the same time never share a temporary path.
C5_PathsNeverCollide ==
    \A r1 \in Runs, r2 \in Runs :
        (r1 # r2 /\ InProgress(runs[r1]) /\ InProgress(runs[r2]))
            => RunPaths(runs[r1]) \cap RunPaths(runs[r2]) = {}

\* C6: (under SpecConcurrent) when two concurrent runs have ended and every
\* stage of both succeeded, both have returned, their identifiers differ
\* and both records are in every listing of getRecordings.
C6_ConcurrentUploadsBothSucceed ==
    \A r1 \in Runs, r2 \in Runs :
        (/\ r1 # r2
         /\ Terminal(runs[r1]) /\ Terminal(runs[r2])
         /\ (PipelineStages \cup {"insert"}) \subseteq runs[r1].completed
         /\ (PipelineStages \cup {"insert"}) \subseteq runs[r2].completed)
        => /\ runs[r1].pc = "returned" /\ runs[r2].pc = "returned"
           /\ runs[r1].result.id # runs[r2].result.id
           /\ \A l \in getRecordings :
                 \A r \in {r1, r2} :
                     \E i \in 1..Len(l) : toString(l[i]._id) = runs[r].result.id

\* C7: the transcription a run holds, stores and returns is derived from
\* its own uploaded bytes, and the source file of a run in progress holds
\* the bytes that run wrote.
C7_RunsIsolated ==
    \A r \in Runs :
        /\ runs[r].transcription \in {NoText, Text(Bytes(r))}
        /\ runs[r].result.transcription \in {NoText, Text(Bytes(r))}
        /\ Stored(runs[r].insertedId) =>
              findOne(recordings, runs[r].insertedId).transcription = Text(Bytes(r))
        /\ (InProgress(runs[r]) /\ "write" \in runs[r].completed)
              => uploadsDir[runs[r].tempVideoPath] = Bytes(r)

\* C8: a run whose snapshot, audio, transcription and insert succeeded
\* returns {id, transcription} whatever the cleanup does, and a cleanup
\* failure never replaces the error of a stage that failed.
C8_CleanupNeverChangesOutcome ==
    \A r \in Runs :
        /\ (Terminal(runs[r]) /\
            {"snapshot", "audio", "transcribe", "insert"} \subseteq runs[r].completed)
              => /\ runs[r].pc = "returned"
                 /\ runs[r].result.id = toString(runs[r].insertedId)
        /\ (runs[r].pc = "rejected" /\ "insert" \notin runs[r].completed)
              => runs[r].error # "cleanup"

\* C9: the record of a run whose snapshot extraction succeeded has a
\* snapshot field holding the base64 encoding of the still image.
C9_SnapshotEmbedded ==
    \A i \in 1..Len(recordings) :
        \A r \in Runs :
            (runs[r].insertedId = recordings[i]._id /\ "snapshot" \in runs[r].completed)
                => /\ "snapshot" \in DOMAIN recordings[i]
                   /\ recordings[i].snapshot[1] = "base64:jpg"

\* C10: at the step where processVideo returns {id, transcription}, the
\* store holds exactly one record created by that run; its identifier is
\* the returned id, its originalName, mimeType and size are those of the
\* uploaded file, its transcription is the returned one, and
\* getRecording(id) yields that record.
C10_ReturnedRecordStored ==
    [][\A r \in Runs :
          (runs[r].pc # "returned" /\ runs'[r].pc = "returned") =>
              LET res == runs'[r].result
                  mine == {i \in 1..Len(recordings') :
                              recordings'[i]._id = runs'[r].insertedId}
              IN /\ Cardinality(mine) = 1
                 /\ runs'[r].inserts = 1
                 /\ isValidHex(res.id)
                 /\ \A i \in mine :
                       /\ toString(recordings'[i]._id) = res.id
                       /\ recordings'[i].originalName = runs'[r].file.originalname
                       /\ recordings'[i].mimeType = runs'[r].file.mimetype
                       /\ recordings'[i].size = runs'[r].file.size
                       /\ recordings'[i].transcription = res.transcription
                       /\ res.transcription # NoText
                       /\ findOne(recordings', ObjectId(res.id)) = recordings'[i]]_vars

C10_Witness ==
    \E r \in Runs :
        /\ runs[r].pc = "returned"
        /\ runs[r].status = 201
        /\ getRecording(runs[r].result.id) # NoDoc
        /\ getRecording(runs[r].result.id).originalName = runs[r].file.originalname

\* C11: the listing GET /recordings answers with holds every stored record
\* once, ordered by createdAt descending, records with the same createdAt
\* ordered by their insertion (the later one first); when createdAt never
\* decreases along the insertion order, the listing is the reverse of the
\* insertion order.
C11_ListingNewestFirst ==
    [][(Answers("list") /\ api'.status = 200) =>
          LET l == api'.listing
              n == Len(recordings)
          IN /\ Len(l) = n
             /\ \A i \in 1..n : \E j \in 1..n : l[j] = recordings[i]
             /\ \A i \in 1..n, j \in 1..n :
                   i < j =>
                      /\ l[i].createdAt >= l[j].createdAt
                      /\ l[i].createdAt = l[j].createdAt
                            => InsertionIndex(l[i]) > InsertionIndex(l[j])
             /\ (\A i \in 1..(n - 1) :
                     recordings[i].createdAt <= recordings[i + 1].createdAt)
                   => \A i \in 1..n : l[i] = recordings[n + 1 - i]]_vars

\* C12: GET /:id with an identifier that is not a valid ObjectId is answered
\* as absent: status 404, no error raised, no record returned, and the
\* store unchanged.
C12_MalformedIdIsAbsent ==
    [][(Answers("get") /\ ~isValidHex(api'.id)) =>
          /\ api'.status = 404
          /\ api'.error = ""
          /\ api'.recording = NoDoc
          /\ recordings' = recordings]_vars

\* C13: DELETE /:id raises no error whatever the identifier (204); when no
\* record has the identifier (never existed, or already deleted) the store
\* is unchanged; and after the answer no record has the identifier, so a
\* second delete leaves the store as the first did.
C13_DeleteIdempotentTotal ==
    [][Answers("delete") =>
          /\ api'.status = 204
          /\ api'.error = ""
          /\ ~HasRecord(api'.id) => recordings' = recordings
          /\ \A i \in 1..Len(recordings') :
                toString(recordings'[i]._id) # api'.id]_vars

\* C14: the step on which deleteOne removes the record with the requested
\* identifier leaves every other record in the store, in the same order
\* and with all fields unchanged; and an identifier that was deleted is
\* never again found by getRecording or in any listing of getRecordings.
C14_DeleteRemovesOnlyThatRecord ==
    [][/\ (Answers("delete") /\ api'.status = 204) =>
             /\ recordings' =
                   SelectSeq(recordings, LAMBDA d : toString(d._id) # api'.id)
             /\ Len(recordings') >= Len(recordings) - 1
       /\ \A oid \in deleted' :
             /\ findOne(recordings', oid) = NoDoc
             /\ \A i \in 1..Len(recordings') : recordings'[i]._id # oid
       /\ (recordings' # recordings /\ Len(recordings') < Len(recordings))
             => Answers("delete")]_vars

C14_Witness ==
    /\ api.op = "delete" /\ api.pc = "done" /\ api.status = 204
    /\ ObjectId(api.id) \in deleted
    /\ recordings # <<>>
    /\ \E r \in Runs : runs[r].insertedId \in deleted

\* C15: a run in which the call of a stage has failed is rejected, with
\* the error of that stage and of no other; it holds no result, and its
\* request is answered with an error status, never 201.
C15_FailureHaltsRun ==
    \A r \in Runs :
        runs[r].failed # {} =>
            /\ runs[r].pc = "rejected"
            /\ runs[r].failed = {runs[r].error}
            /\ runs[r].result = NoResult
            /\ runs[r].status \in 400..599

C15_Witness ==
    \E r1 \in Runs, r2 \in Runs :
        /\ runs[r1].pc = "rejected" /\ runs[r1].failed = {"snapshot"}
        /\ runs[r1].status = 500
        /\ runs[r2].pc = "rejected" /\ runs[r2].failed = {"insert"}
        /\ runs[r2].status = 500

\* C16: whatever NODE_ENV is, the response to an upload refused as invalid
\* input (bad mimetype or file too large) differs from the response to an
\* upload whose processing failed inside processVideo.
C16_InvalidInputDistinguishable ==
    \A env \in NodeEnvs : \A r1 \in Runs, r2 \in Runs :
        (/\ Invalid(runs[r1].sent) /\ runs[r1].pc = "refused"
         /\ runs[r2].pc = "rejected")
            => Response(env, runs[r1]) # Response(env, runs[r2])

\* C17: a run that has ended, whether it returned or was rejected, has
\* performed the release of its temporary files exactly once, and no run
\* ever performs it twice.
C17_ReleaseExactlyOnce ==
    \A r \in Runs :
        /\ Calls(runs[r], "cleanup") <= 1
        /\ Terminal(runs[r]) => Calls(runs[r], "cleanup") = 1

\* C18: every record in the store has a mimeType of the allow-list and a
\* size greater than 0 and not above the limit.
C18_RecordTypeAndSizeValid ==
    \A i \in 1..Len(recordings) :
        /\ recordings[i].mimeType \in allowedTypes
        /\ recordings[i].size > 0
        /\ recordings[i].size <= MaxFileSize

\* C19: the calls a run has made are, in this order and without gaps,
\* source write, snapshot extraction, audio extraction, transcription,
\* (connect,) insert, cleanup; every call but the last one made has
\* completed successfully; and when a call has failed it is the last call
\* the run has made (a snapshot file that cannot be read back fails the
\* run before the insert is called).
C19_StagesInOrder ==
    \A r \in Runs :
        LET st == runs[r].started IN
        /\ \E n \in 0..Len(CallOrder) :
              \/ st = SubSeq(CallOrder, 1, n)
              \/ st = SelectSeq(SubSeq(CallOrder, 1, n), LAMBDA c : c # "connect")
        /\ \A i \in 1..(Len(st) - 1) : st[i] \in runs[r].completed
        /\ runs[r].failed # {} =>
              IF "readSnapshot" \in runs[r].failed
              THEN "insert" \notin Range(st)
              ELSE st # <<>> /\ runs[r].failed = {st[Len(st)]}

C19_Witness ==
    /\ \E r \in Runs :
          /\ runs[r].pc = "returned"
          /\ runs[r].started = CallOrder
    /\ \E r \in Runs :
          /\ runs[r].pc = "rejected"
          /\ runs[r].failed = {"audio"}
          /\ runs[r].started = <<"write", "snapshot", "audio">>

\* C20: a run calls ffmpeg at most once for the snapshot and at most once
\* for the audio, and the transcription backend at most once; a run that
\* returned has made each of the three calls exactly once.
C20_NoStageRetried ==
    \A r \in Runs :
        /\ Calls(runs[r], "snapshot") <= 1
        /\ Calls(runs[r], "audio") <= 1
        /\ Calls(runs[r], "transcribe") <= 1
        /\ runs[r].pc = "returned" =>
              /\ Calls(runs[r], "snapshot") + Calls(runs[r], "audio") = 2
              /\ Calls(runs[r], "transcribe") = 1

C20_Witness ==
    /\ \E r \in Runs :
          /\ runs[r].pc = "returned"
          /\ Calls(runs[r], "snapshot") = 1 /\ Calls(runs[r], "audio") = 1
          /\ Calls(runs[r], "transcribe") = 1
    /\ \E r \in Runs :
          /\ runs[r].pc = "rejected" /\ runs[r].failed = {"transcribe"}
          /\ Calls(runs[r], "transcribe") = 1

\* C21: (under SpecLive, where every pending external call eventually
\* signals completion or error) every run that has started eventually
\* ends, returned with its record stored or rejected, and its request is
\* answered, with 201 or through the error handler.
C21_RunsTerminate ==
    \A r \in Runs :
        InProgress(runs[r]) ~>
            \/ /\ runs[r].pc = "returned" /\ runs[r].status = 201
               /\ runs[r].inserts = 1
            \/ /\ runs[r].pc = "rejected" /\ runs[r].status = 500

C21_Witness ==
    \E r1 \in Runs, r2 \in Runs :
        /\ runs[r1].pc = "returned" /\ runs[r1].status = 201
        /\ runs[r2].pc = "rejected" /\ runs[r2].status = 500
        /\ runs[r2].started # <<>>

\* C22: createdAt never decreases along the insertion order of the store.
C22_CreatedAtFollowsInsertionOrder ==
    \A i \in 1..Len(recordings), j \in 1..Len(recordings) :
        i < j => recordings[i].createdAt <= recordings[j].createdAt

\* C23: client.connect() is invoked at most once, however many callers of
\* connectToDatabase there are and however they interleave.
C23_ConnectAtMostOnce == connectCalls <= 1

\* The request went past the upload middleware into the route handler.
ReachedHandler(rs) == rs.pc # "idle" /\ "multer" \notin Range(rs.replies)

\* C24: a request that reached the route handler is answered exactly once:
\* while processVideo is pending no answer has been sent, and once the
\* handler has finished exactly one of the 400 reply, the 201 reply and
\* next(error) has happened, the one that matches the outcome.
C24_ExactlyOneResponse ==
    \A r \in Runs :
        ReachedHandler(runs[r]) =>
            /\ InProgress(runs[r]) => runs[r].replies = <<>>
            /\ runs[r].pc = "refused" =>
                   runs[r].replies = <<"400">> /\ runs[r].status = 400
            /\ runs[r].pc = "returned" =>
                   runs[r].replies = <<"201">> /\ runs[r].status = 201
            /\ runs[r].pc = "rejected" =>
                   runs[r].replies = <<"next">> /\ runs[r].status = 500

C24_Witness ==
    \E r1 \in Runs, r2 \in Runs :
        /\ runs[r1].pc = "returned" /\ runs[r1].replies = <<"201">>
        /\ runs[r2].pc = "rejected" /\ runs[r2].replies = <<"next">>

\* No run is to write `p' any more.
NoLongerWritten(p) ==
    \A r \in Runs :
        /\ writers[r] # "writing"
        /\ p # SweepRun.tempVideoPath => writers[r] # "snapshot"
        /\ p = SweepRun.audioPath => writers[r] # "audio"

\* The sweep's unlink removes `p' in this step.
SweptAway(p) ==
    /\ p \in sweep.unlinking /\ p \notin sweep'.unlinking
    /\ mtimes[p] # NoFile /\ mtimes'[p] = NoFile

\* (under SpecSweep) a file in the uploads directory that no run writes to
\* any more is eventually deleted.
LeftFilesSwept ==
    \A p \in SweepFiles :
        (mtimes[p] # NoFile /\ NoLongerWritten(p)) ~> mtimes[p] = NoFile

\* C25: a file in the uploads directory that no run writes to any more is
\* eventually deleted by the sweep, and a file the sweep deletes was last
\* modified more than one hour before the deletion.
C25_SweepSparesRecentFiles ==
    /\ LeftFilesSwept
    /\ [][\A p \in SweepFiles : SweptAway(p) => Age(mtimes[p]) > TicksPerHour]_vars

\* C26: isRecording is true only while status is 'recording'.
C26_RecordingOnlyInStatusRecording == isRecording => status = "recording"

\* C28: after resetRecording, and until the user starts a recording or an
\* upload, status is 'idle' and the transcript is empty.
C28_ResetHolds == afterReset => status = "idle" /\ transcript = NoTranscript

\* What the handlers and callbacks of the component read and write.
componentState ==
    <<status, isRecording, recordedChunks, recordedVideoUrl, transcript,
      isMicrophoneEnabled, facingMode, mediaRecorderRef, streamRef, recorders,
      gumPending, fetchPending>>

\* uploadVideo without chunks sends nothing and sets nothing; with chunks
\* it sets 'processing' and sends one request.
UploadVideoStarts ==
    event' = Event("uploadVideo") =>
        IF recordedChunks = 0
        THEN UNCHANGED componentState
        ELSE status' = "processing" /\ fetchPending' = fetchPending + 1

\* C27 (as stated): uploadVideo without chunks sends no request and changes
\* no state; with chunks it sets 'processing', and when the request has
\* settled status is 'uploaded' if the response was ok and 'error' if not.
C27_UploadedIffResponseOk ==
    [][/\ UploadVideoStarts
       /\ \A outcome \in FetchOutcomes :
             event' = <<"fetch", outcome>> =>
                 status' = IF outcome \in {"ok", "ok, no json"}
                           THEN "uploaded" ELSE "error"]_vars

\* C27 (amended): ... and when the request has settled status is 'uploaded'
\* if the response was ok and its body was read as JSON, and 'error' in
\* every other case; it is never left at 'processing'.
C27_UploadedIffResponseRead ==
    [][/\ UploadVideoStarts
       /\ \A outcome \in FetchOutcomes :
             event' = <<"fetch", outcome>> =>
                 status' = IF outcome = "ok" THEN "uploaded" ELSE "error"]_vars

C27_Witness == event = <<"fetch", "ok, no json">> /\ status = "error"

====
